---- MODULE Spec2Model ----
(***************************************************************************)
(* Real-time collaboration core of Cloud_Notebook_Project:                 *)
(*   - services/websocket.js (src/unnamed/part_000): connection registry,  *)
(*     notebook rooms, presence events, liveness sweeper;                  *)
(*   - routes/collaboration.js: POST /:notebookId/operations;              *)
(*   - middleware/auth.js (src/backend/src/routes/search.js):              *)
(*     canAccessNotebook;                                                  *)
(*   - config/aws.js: DynamoDBService.getNotebook / updateNotebook.        *)
(* Every async handler is split at its awaits; the code between two awaits *)
(* is one atomic action (Node.js runs it to completion).                   *)
(***************************************************************************)
EXTENDS Integers, FiniteSets, Sequences, TLC

\* ------------------------------------------------------------------ universe
Conns == {"c1", "c2", "c3"}
Users == {"u1", "u2"}
Docs  == {"d1", "d2"}
RestCalls == {"r1", "r2"}

\* socket.user of each transport session (set by the io.use middleware)
UserOf(c) == IF c = "c3" THEN "u2" ELSE "u1"

\* decoded.role of each identity
RoleOf(u) == IF u = "u1" THEN "student" ELSE "teacher"

\* notebook.owner / notebook.collaborators as stored in the notebooks table
OwnerOf(d)         == IF d = "d1" THEN "u1" ELSE "u2"
CollaboratorsOf(d) == {}

NoDoc  == "none"      \* payload without notebookId
MissingDoc == "d0"    \* a notebookId with no item in the notebooks table
Null   == "null"      \* JavaScript null / undefined
NoTime == -1          \* field not set yet
NoBase == -1          \* payload without baseVersion
Positions == {Null, "p1"}

\* payload.operations: missing, not an array, an array of two operations (an insert and
\* a delete)
NoOps   == [type |-> "undefined", n |-> 0]
BadOps  == [type |-> "object", n |-> 0]
SomeOps == [type |-> "array", n |-> 2]

\* payload.message of chat-message: a string (its characters) or another type
Str(chars) == [type |-> "string", chars |-> chars]
NoMessage  == [type |-> "undefined", chars |-> <<>>]
NumMessage == [type |-> "number", chars |-> <<>>]
ChatInputs == {NoMessage, NumMessage, Str(<<>>), Str(<<" ", " ">>), Str(<<" ", "h", " ">>)}

\* socket.handshake.auth.token: absent, signed with the secret and current, signed and
\* expired, signed with another key
NoToken == "none"
Tokens  == {NoToken, "valid", "expired", "forged"}

\* ------------------------------------------------------------------ bounds
MaxTime      == 3     \* the clock stops after MaxTime ticks
MaxSuspended == 2     \* handlers suspended on an await at the same time
MaxJoins     == 3     \* tracked unmatched joins per (identity, document)
MaxSent      == 3     \* tracked messages per connection

\* inactivityThreshold of cleanupInactiveConnections, in milliseconds
InactivityThreshold == 5 * 60 * 1000
\* setInterval(cleanupInactiveConnections, 30000)
SweepInterval == 30000
\* the clock advances in steps of half the threshold
TickMs == InactivityThreshold \div 2

VARIABLES
  sockets,            \* transport session of each id: "new", "refused", "connected",
                      \* "closing", "closed"
  activeConnections,  \* Map socket.id -> [notebooks, lastActivity]
  notebookRooms,      \* Map notebookId -> Map userId -> entry
  adapterRooms,       \* socket.io rooms: notebookId -> set of socket ids
  suspended,          \* websocket handlers awaiting canAccessNotebook
  store,              \* notebooks table: notebookId -> [version, content]
  rest,               \* REST operation requests: call -> request state
  now,                \* Date.now()
  outbox,             \* the events emitted by the last step
  lastStep,           \* the last step: handler, connection, document, data of the state before it
  lastInbound,        \* history: when each connection connected or last sent a message
  evictedNotebooks,   \* history: the joined set of each connection the sweeper evicted
  backups,            \* S3 backup snapshots: set of [doc, version, content]
  sendLog,            \* history: the messages each connection sent and the operations of
                      \* each connection that were broadcast, in order
  pairHist            \* history: joins and leaves handled per (identity, document)

vars == <<sockets, activeConnections, notebookRooms, adapterRooms, suspended,
          store, rest, now, outbox, lastStep, lastInbound, evictedNotebooks, backups,
          sendLog, pairHist>>

\* ------------------------------------------------------------------ maps
EmptyMap == [x \in {} |-> 0]
MapSet(m, k, v) == [x \in (DOMAIN m) \cup {k} |-> IF x = k THEN v ELSE m[x]]
MapDelete(m, k) == [x \in (DOMAIN m) \ {k} |-> m[x]]

\* ------------------------------------------------------------------ transport
ConnectedIn(socks) == {c \in Conns : socks[c] = "connected"}
Connected == ConnectedIn(sockets)

\* mutant: the broadcast is sent with io.to(room), which includes the sender
ToRoomWithSender(c, d) == adapterRooms[d] \cap Connected

\* socket.to(room).emit(...): every socket of the room but the sender
ToRoomExcept(c, d) == (adapterRooms[d] \ {c}) \cap Connected
\* io.to(room).emit(...): every socket of the room
ToRoom(d) == adapterRooms[d] \cap Connected
\* socket.emit(...): the socket itself
ToSelf(c) == {c} \cap Connected

Event(ev, d, c, to, msg) ==
  [ev |-> ev, doc |-> d, sock |-> c, to |-> to, msg |-> msg, version |-> 0,
   activeUsers |-> {}, roomSize |-> 0, text |-> <<>>]

\* mutant: the error is emitted to every connected socket
ErrorEventToAll(c, msg) == Event("error", NoDoc, c, Connected, msg)

ErrorEvent(c, msg) == Event("error", NoDoc, c, ToSelf(c), msg)

Step(kind, c, d) ==
  [kind |-> kind, sock |-> c, doc |-> d,
   registered |-> c \in DOMAIN activeConnections,
   notebooks |-> IF c \in DOMAIN activeConnections
                 THEN activeConnections[c].notebooks ELSE {},
   ok |-> TRUE, base |-> NoBase, evicted |-> {}, sync |-> {},
   token |-> NoToken, message |-> NoMessage, err |-> FALSE]

\* Socket#_cleanup -> leaveAll(): the adapter forgets the socket
LeaveAll(rooms, c) == [d \in Docs |-> rooms[d] \ {c}]

\* ------------------------------------------------------------------ auth
\* mutant: an error of the lookup grants the access
canAccessNotebookFailsOpen(u, d, action, err) ==
  IF RoleOf(u) = "admin" THEN TRUE
  ELSE IF err THEN TRUE
  ELSE IF d \notin DOMAIN store THEN FALSE
  ELSE IF OwnerOf(d) = u THEN TRUE
  ELSE IF u \in CollaboratorsOf(d) THEN TRUE
  ELSE IF RoleOf(u) = "teacher" /\ action = "read" THEN TRUE
  ELSE FALSE

\* canAccessNotebook(userId, userRole, notebookId, action); err: getNotebook threw
canAccessNotebook(u, d, action, err) ==
  IF RoleOf(u) = "admin" THEN TRUE
  ELSE IF err THEN FALSE
  ELSE IF d \notin DOMAIN store THEN FALSE
  ELSE IF OwnerOf(d) = u THEN TRUE
  ELSE IF u \in CollaboratorsOf(d) THEN TRUE
  ELSE IF RoleOf(u) = "teacher" /\ action = "read" THEN TRUE
  ELSE FALSE

\* ------------------------------------------------------------------ history
NoHist(tracked) ==
  [tracked |-> tracked, of |-> [u \in Users |-> [d \in Docs |-> [net |-> 0, last |-> "none"]]]]
Tracked == pairHist.tracked

\* an accepted join was handled for (u, d)
NoteJoin(u, d) ==
  IF Tracked THEN [pairHist EXCEPT !.of[u][d] = [net |-> @.net + 1, last |-> "join"]]
  ELSE pairHist
\* a leave was handled for (u, d): it matches one earlier join, if there is one
NoteLeave(u, d) ==
  IF Tracked
  THEN [pairHist EXCEPT !.of[u][d] = [net |-> IF @.net > 0 THEN @.net - 1 ELSE 0,
                                      last |-> "leave"]]
  ELSE pairHist
JoinsBounded(u, d) == Tracked => pairHist.of[u][d].net < MaxJoins

\* the send order: socket.io delivers the messages of one connection in the order sent
NoLog(tracked) ==
  [tracked |-> tracked, of |-> [c \in Conns |-> <<>>], cast |-> [c \in Conns |-> <<>>]]
\* connection c sent a message: it is the next of its log
NoteSent(c, kind, d) ==
  IF sendLog.tracked THEN [sendLog EXCEPT !.of[c] = Append(@, [kind |-> kind, doc |-> d])]
  ELSE sendLog
\* the position the next message of c has in the send order of c (0: not tracked)
NextSeq(c) == IF sendLog.tracked THEN Len(sendLog.of[c]) + 1 ELSE 0
\* the operation c sent as its seq-th message was broadcast to the sockets of `to`
NoteCast(c, seq, to) ==
  IF sendLog.tracked THEN [sendLog EXCEPT !.cast[c] = Append(@, [seq |-> seq, to |-> to])]
  ELSE sendLog
SendBounded(c) == sendLog.tracked => Len(sendLog.of[c]) < MaxSent

\* ------------------------------------------------------------------ init
InitBase ==
  /\ sockets = [c \in Conns |-> "new"]
  /\ activeConnections = EmptyMap
  /\ notebookRooms = EmptyMap
  /\ adapterRooms = [d \in Docs |-> {}]
  /\ suspended = {}
  /\ store = [d \in Docs |-> [version |-> 1, content |-> "k0"]]
  /\ rest = [r \in RestCalls |->
               [pc |-> "idle", user |-> Null, doc |-> NoDoc, ops |-> NoOps, base |-> NoBase,
                read |-> 0, newVersion |-> 0, status |-> 0, currentVersion |-> 0, applied |-> 0,
                route |-> "none", content |-> Null]]
  /\ now = 0
  /\ outbox = {}
  /\ lastStep = [kind |-> "init", sock |-> Null, doc |-> NoDoc, registered |-> FALSE,
                 notebooks |-> {}, ok |-> TRUE, base |-> NoBase, evicted |-> {}, sync |-> {},
                 token |-> NoToken, message |-> NoMessage, err |-> FALSE]
  /\ lastInbound = [c \in Conns |-> NoTime]
  /\ evictedNotebooks = EmptyMap
  /\ backups = {}

Init == InitBase /\ pairHist = NoHist(FALSE) /\ sendLog = NoLog(FALSE)

InitTracked == InitBase /\ pairHist = NoHist(TRUE) /\ sendLog = NoLog(FALSE)

InitOrdered == InitBase /\ pairHist = NoHist(FALSE) /\ sendLog = NoLog(TRUE)

\* ------------------------------------------------------------------ connection
\* io.on('connection'): the handshake verified, the record is stored
Connection(c) ==
  /\ sockets[c] = "new"
  /\ sockets' = [sockets EXCEPT ![c] = "connected"]
  /\ activeConnections' = MapSet(activeConnections, c,
                                 [notebooks |-> {}, lastActivity |-> now])
  /\ outbox' = {}
  /\ lastStep' = Step("connection", c, NoDoc)
  /\ lastInbound' = [lastInbound EXCEPT ![c] = now]
  /\ UNCHANGED <<notebookRooms, adapterRooms, suspended, store, rest, now,
                 evictedNotebooks, backups, sendLog, pairHist>>

\* mutant: the expiry of the token is not checked
jwtVerifyIgnoresExpiry(token) == token \in {"valid", "expired"}

\* jwt.verify(token, JWT_SECRET): throws on a bad signature and on an expired token
jwtVerify(token) == token = "valid"

\* io.use middleware, then io.on('connection') when next() was called without an error
Handshake(c, token) ==
  /\ sockets[c] = "new"
  /\ IF token = NoToken \/ ~jwtVerify(token)
     THEN /\ sockets' = [sockets EXCEPT ![c] = "refused"]
          /\ UNCHANGED <<activeConnections, lastInbound>>
     ELSE /\ sockets' = [sockets EXCEPT ![c] = "connected"]
          /\ activeConnections' = MapSet(activeConnections, c,
                                         [notebooks |-> {}, lastActivity |-> now])
          /\ lastInbound' = [lastInbound EXCEPT ![c] = now]
  /\ outbox' = {}
  /\ lastStep' = [Step("handshake", c, NoDoc) EXCEPT !.token = token]
  /\ UNCHANGED <<notebookRooms, adapterRooms, suspended, store, rest, now,
                 evictedNotebooks, backups, sendLog, pairHist>>

\* an inbound message of connection c arrives
Inbound(c, kind, d) ==
  /\ sockets[c] = "connected"
  /\ lastInbound' = [lastInbound EXCEPT ![c] = now]
  /\ lastStep' = Step(kind, c, d)
  /\ SendBounded(c)
  /\ sendLog' = NoteSent(c, kind, d)
  /\ UNCHANGED <<sockets, store, rest, now, evictedNotebooks, backups>>

\* a suspended handler of connection c resumes
Resume(t, kind, ok, err) ==
  /\ t \in suspended
  /\ suspended' = suspended \ {t}
  /\ lastStep' = [Step(kind, t.sock, t.doc) EXCEPT !.ok = ok, !.base = t.base, !.err = err]
  /\ UNCHANGED <<sockets, store, rest, now, lastInbound, evictedNotebooks, backups>>

Suspend(kind, c, d, base) ==
  /\ Cardinality(suspended) < MaxSuspended
  /\ suspended' = suspended \cup {[kind |-> kind, sock |-> c, doc |-> d, base |-> base,
                                    seq |-> NextSeq(c)]}

\* connection.lastActivity = Date.now(), when the record exists
Touch(reg, c) ==
  IF c \in DOMAIN reg THEN [reg EXCEPT ![c].lastActivity = now] ELSE reg

\* ------------------------------------------------------------------ join
\* handleJoinNotebook up to `await canAccessNotebook`
JoinNotebook(c, d) ==
  /\ Inbound(c, "join-notebook", d)
  /\ IF d = NoDoc
     THEN /\ outbox' = {ErrorEvent(c, "Notebook ID required")}
          /\ UNCHANGED suspended
     ELSE /\ Suspend("join", c, d, NoBase)
          /\ outbox' = {}
  /\ UNCHANGED <<activeConnections, notebookRooms, adapterRooms, pairHist>>

\* the room entry handleJoinNotebook stores
JoinEntry(c) == [socketId |-> c, joinedAt |-> now, cursorPosition |-> Null,
                 isTyping |-> FALSE, lastOperation |-> NoTime]

\* mutant: the snapshot lists nobody
ActiveUsersNone(room) == {}

\* activeUsers of 'notebook-joined': one item per room entry
ActiveUsers(room) ==
  {[id |-> u, joinedAt |-> room[u].joinedAt, cursorPosition |-> room[u].cursorPosition,
    isTyping |-> room[u].isTyping] : u \in DOMAIN room}

\* mutant: a join by an identity the room already holds starts the room afresh
JoinRoomFresh(rooms, d, c) ==
  IF d \in DOMAIN rooms /\ UserOf(c) \notin DOMAIN rooms[d]
  THEN MapSet(rooms, d, MapSet(rooms[d], UserOf(c), JoinEntry(c)))
  ELSE MapSet(rooms, d, MapSet(EmptyMap, UserOf(c), JoinEntry(c)))

\* mutant: an entry the identity already has is kept (first write wins)
JoinRoomKeepsFirst(rooms, d, c) ==
  IF d \in DOMAIN rooms /\ UserOf(c) \in DOMAIN rooms[d] THEN rooms
  ELSE MapSet(rooms, d, MapSet(IF d \in DOMAIN rooms THEN rooms[d] ELSE EmptyMap,
                               UserOf(c), JoinEntry(c)))

\* notebookRooms after handleJoinNotebook has stored the entry of socket c
JoinRoom(rooms, d, c) ==
  LET room == IF d \in DOMAIN rooms THEN rooms[d] ELSE EmptyMap
  IN MapSet(rooms, d, MapSet(room, UserOf(c), JoinEntry(c)))

\* handleJoinNotebook from the return of canAccessNotebook to the end
JoinNotebookResume(t, err) ==
  LET c == t.sock
      d == t.doc
      u == UserOf(c)
      hasAccess == canAccessNotebook(u, d, "read", err)
  IN /\ t.kind = "join"
     /\ Resume(t, "join-resume", hasAccess, err)
     /\ UNCHANGED sendLog
     /\ IF ~hasAccess
        THEN /\ outbox' = {ErrorEvent(c, "Access denied to notebook")}
             /\ UNCHANGED <<activeConnections, notebookRooms, adapterRooms, pairHist>>
        ELSE LET newRooms == JoinRoom(notebookRooms, d, c)
                 newAdapter == [adapterRooms EXCEPT ![d] = @ \cup {c}]
             IN /\ JoinsBounded(u, d)
                /\ adapterRooms' = newAdapter
                /\ activeConnections' =
                     IF c \in DOMAIN activeConnections
                     THEN [activeConnections EXCEPT
                             ![c] = [notebooks |-> @.notebooks \cup {d}, lastActivity |-> now]]
                     ELSE activeConnections
                /\ notebookRooms' = newRooms
                /\ outbox' =
                     {Event("user-joined", d, c, (newAdapter[d] \ {c}) \cap Connected, ""),
                      [Event("notebook-joined", d, c, ToSelf(c), "") EXCEPT
                         !.activeUsers = ActiveUsers(newRooms[d]),
                         !.roomSize = Cardinality(DOMAIN newRooms[d])]}
                /\ pairHist' = NoteJoin(u, d)

\* ------------------------------------------------------------------ leave
\* mutant: the entry is deleted but an empty room stays in the table
RemoveMemberKeepsEmptyRoom(rooms, d, u) ==
  IF d \notin DOMAIN rooms THEN rooms ELSE MapSet(rooms, d, MapDelete(rooms[d], u))

\* mutant: the entry is never deleted
RemoveMemberKeepsEntry(rooms, d, u) == rooms

\* mutant: the whole room is deleted, whoever is left in it
RemoveMemberDropsRoom(rooms, d, u) == MapDelete(rooms, d)

\* notebookRoom.delete(userId) and the clean-up of an empty room
RemoveMember(rooms, d, u) ==
  IF d \notin DOMAIN rooms THEN rooms
  ELSE LET room == MapDelete(rooms[d], u)
       IN IF DOMAIN room = {} THEN MapDelete(rooms, d) ELSE MapSet(rooms, d, room)

\* handleLeaveNotebook (no await inside: one step)
LeaveNotebook(c, d) ==
  /\ Inbound(c, "leave-notebook", d)
  /\ IF d = NoDoc
     THEN /\ outbox' = {ErrorEvent(c, "Notebook ID required")}
          /\ UNCHANGED <<activeConnections, notebookRooms, adapterRooms, pairHist>>
     ELSE LET newAdapter == [adapterRooms EXCEPT ![d] = @ \ {c}]
          IN /\ adapterRooms' = newAdapter
             /\ activeConnections' =
                  IF c \in DOMAIN activeConnections
                  THEN [activeConnections EXCEPT ![c].notebooks = @ \ {d}]
                  ELSE activeConnections
             /\ notebookRooms' = RemoveMember(notebookRooms, d, UserOf(c))
             /\ outbox' = {Event("user-left", d, c, (newAdapter[d] \ {c}) \cap Connected, ""),
                           Event("notebook-left", d, c, ToSelf(c), "")}
             /\ pairHist' = NoteLeave(UserOf(c), d)
  /\ UNCHANGED suspended

\* ------------------------------------------------------------------ operation
\* handleOperation up to `await canAccessNotebook`
Operation(c, d, ops, base) ==
  /\ Inbound(c, "operation", d)
  /\ IF d = NoDoc \/ ops.type = "undefined"
     THEN /\ outbox' = {ErrorEvent(c, "Notebook ID and operations required")}
          /\ UNCHANGED suspended
     ELSE /\ Suspend("operation", c, d, base)
          /\ outbox' = {}
  /\ UNCHANGED <<activeConnections, notebookRooms, adapterRooms, pairHist>>

\* mutant: the field is set on every entry of the room
SetEntryOfAll(rooms, d, u, field, value) ==
  IF d \in DOMAIN rooms
  THEN [rooms EXCEPT ![d] = [x \in DOMAIN @ |-> [@[x] EXCEPT ![field] = value]]]
  ELSE rooms

\* userInfo.<field> = value, when the identity has an entry in the room
SetEntry(rooms, d, u, field, value) ==
  IF d \in DOMAIN rooms /\ u \in DOMAIN rooms[d]
  THEN [rooms EXCEPT ![d][u][field] = value]
  ELSE rooms

\* handleOperation from the return of canAccessNotebook to the end
OperationResume(t, err) ==
  LET c == t.sock
      d == t.doc
      u == UserOf(c)
      hasAccess == canAccessNotebook(u, d, "write", err)
  IN /\ t.kind = "operation"
     /\ Resume(t, "operation-resume", hasAccess, err)
     /\ sendLog' = IF hasAccess THEN NoteCast(c, t.seq, ToRoomExcept(c, d)) ELSE sendLog
     /\ IF ~hasAccess
        THEN /\ outbox' = {ErrorEvent(c, "Write access denied")}
             /\ UNCHANGED <<activeConnections, notebookRooms>>
        ELSE /\ activeConnections' = Touch(activeConnections, c)
             /\ outbox' = {Event("operation", d, c, ToRoomExcept(c, d), "")}
             /\ notebookRooms' = SetEntry(notebookRooms, d, u, "lastOperation", now)
     /\ UNCHANGED <<adapterRooms, pairHist>>

\* ------------------------------------------------------------------ presence
\* handleCursorPosition
CursorPosition(c, d, position) ==
  /\ Inbound(c, "cursor-position", d)
  /\ IF d = NoDoc \/ position = Null
     THEN /\ outbox' = {}
          /\ UNCHANGED notebookRooms
     ELSE /\ notebookRooms' = SetEntry(notebookRooms, d, UserOf(c), "cursorPosition", position)
          /\ outbox' = {Event("cursor-position", d, c, ToRoomExcept(c, d), "")}
  /\ UNCHANGED <<activeConnections, adapterRooms, suspended, pairHist>>

\* handleTyping
Typing(c, d, isTyping) ==
  /\ Inbound(c, "typing", d)
  /\ IF d = NoDoc
     THEN /\ outbox' = {}
          /\ UNCHANGED notebookRooms
     ELSE /\ notebookRooms' = SetEntry(notebookRooms, d, UserOf(c), "isTyping", isTyping)
          /\ outbox' = {Event("typing", d, c, ToRoomExcept(c, d), "")}
  /\ UNCHANGED <<activeConnections, adapterRooms, suspended, pairHist>>

\* handlePresence; status: Null when the payload has none
Presence(c, d, status) ==
  /\ Inbound(c, "presence", d)
  /\ outbox' = IF d = NoDoc \/ status = Null THEN {}
               ELSE {Event("presence", d, c, ToRoomExcept(c, d), status)}
  /\ UNCHANGED <<activeConnections, notebookRooms, adapterRooms, suspended, pairHist>>

\* ------------------------------------------------------------------ chat
RECURSIVE TrimLeft(_)
TrimLeft(s) == IF s # <<>> /\ Head(s) = " " THEN TrimLeft(Tail(s)) ELSE s
RECURSIVE TrimRight(_)
TrimRight(s) ==
  IF s # <<>> /\ s[Len(s)] = " " THEN TrimRight(SubSeq(s, 1, Len(s) - 1)) ELSE s
\* mutant: nothing is trimmed
TrimNothing(s) == s
\* String.prototype.trim
Trim(s) == TrimRight(TrimLeft(s))

\* !message: undefined and the empty string are falsy
Falsy(m) == m.type = "undefined" \/ (m.type = "string" /\ m.chars = <<>>)

\* handleChatMessage
ChatMessage(c, d, m) ==
  /\ sockets[c] = "connected"
  /\ lastInbound' = [lastInbound EXCEPT ![c] = now]
  /\ lastStep' = [Step("chat-message", c, d) EXCEPT !.message = m]
  /\ SendBounded(c)
  /\ sendLog' = NoteSent(c, "chat-message", d)
  /\ UNCHANGED <<sockets, store, rest, now, evictedNotebooks, backups>>
  /\ outbox' =
       IF d = NoDoc \/ Falsy(m)
       THEN {ErrorEvent(c, "Notebook ID and message required")}
       ELSE IF m.type # "string" \/ Len(Trim(m.chars)) = 0
       THEN {ErrorEvent(c, "Invalid message content")}
       ELSE {[Event("chat-message", d, c, ToRoom(d), "") EXCEPT !.text = Trim(m.chars)]}
  /\ UNCHANGED <<activeConnections, notebookRooms, adapterRooms, suspended, pairHist>>

\* ------------------------------------------------------------------ disconnect
RECURSIVE RemoveFromRooms(_, _, _)
\* the room clean-up of handleDisconnect, over connection.notebooks
RemoveFromRooms(rooms, D, u) ==
  IF D = {} THEN rooms
  ELSE LET d == CHOOSE x \in D : TRUE
       IN RemoveFromRooms(RemoveMember(rooms, d, u), D \ {d}, u)

\* the in-process state a synchronous run works on
Cur == [reg |-> activeConnections, rooms |-> notebookRooms, adapter |-> adapterRooms,
        socks |-> sockets, out |-> {}]

\* mutant: handleDisconnect forgets activeConnections.delete(socket.id)
handleDisconnectKeepsRecord(st, c) ==
  IF c \notin DOMAIN st.reg THEN st
  ELSE [st EXCEPT
          !.out = @ \cup {Event("user-left", d, c,
                                (st.adapter[d] \ {c}) \cap ConnectedIn(st.socks), "disconnect") :
                          d \in st.reg[c].notebooks},
          !.rooms = RemoveFromRooms(@, st.reg[c].notebooks, UserOf(c))]

\* handleDisconnect(socket)
handleDisconnect(st, c) ==
  IF c \notin DOMAIN st.reg THEN st
  ELSE [st EXCEPT
          !.out = @ \cup {Event("user-left", d, c,
                                (st.adapter[d] \ {c}) \cap ConnectedIn(st.socks), "disconnect") :
                          d \in st.reg[c].notebooks},
          !.rooms = RemoveFromRooms(@, st.reg[c].notebooks, UserOf(c)),
          !.reg = MapDelete(@, c)]

\* Socket#_onclose: the adapter drops the socket, then 'disconnect' is emitted
SocketClose(st, c) ==
  handleDisconnect([st EXCEPT !.adapter = LeaveAll(@, c),
                              !.socks = [@ EXCEPT ![c] = "closed"]], c)

\* the in-process state becomes st
Commit(st) ==
  /\ activeConnections' = st.reg
  /\ notebookRooms' = st.rooms
  /\ adapterRooms' = st.adapter
  /\ sockets' = st.socks
  /\ outbox' = st.out

\* the transport of a connected socket closes (the client went away)
Disconnect(c) ==
  /\ sockets[c] = "connected"
  /\ Commit(SocketClose(Cur, c))
  /\ lastStep' = Step("disconnect", c, NoDoc)
  /\ UNCHANGED <<suspended, store, rest, now, lastInbound, evictedNotebooks, backups, sendLog, pairHist>>

\* ------------------------------------------------------------------ sweeper
Tick ==
  /\ now < MaxTime * TickMs
  /\ now' = now + TickMs
  /\ outbox' = {}
  /\ lastStep' = Step("tick", Null, NoDoc)
  /\ UNCHANGED <<sockets, activeConnections, notebookRooms, adapterRooms, suspended, store,
                 rest, lastInbound, evictedNotebooks, backups, sendLog, pairHist>>

\* now - connection.lastActivity > inactivityThreshold
Inactive(conn) == now - conn.lastActivity > InactivityThreshold

Stale == {c \in DOMAIN activeConnections : Inactive(activeConnections[c])}

\* the orders in which a forEach may visit the connections of S
Orders(S) == {f \in [1..Cardinality(S) -> S] : \A i, j \in 1..Cardinality(S) : f[i] = f[j] => i = j}

\* connection.socket.disconnect(true); activeConnections.delete(socketId).
\* sync: the transport closed at once and 'disconnect' was delivered inside disconnect(true)
Evict(st, c, sync) ==
  IF sync THEN [SocketClose(st, c) EXCEPT !.reg = MapDelete(@, c)]
  ELSE [st EXCEPT !.socks = [@ EXCEPT ![c] = "closing"], !.reg = MapDelete(@, c)]

RECURSIVE SweepFrom(_, _, _, _)
SweepFrom(st, order, i, syncSet) ==
  IF i > Len(order) THEN st
  ELSE SweepFrom(Evict(st, order[i], order[i] \in syncSet), order, i + 1, syncSet)

\* cleanupInactiveConnections
cleanupInactiveConnections(order, syncSet) ==
  /\ now % SweepInterval = 0
  /\ order \in Orders(Stale)
  /\ syncSet \subseteq Stale
  /\ Commit(SweepFrom(Cur, order, 1, syncSet))
  /\ lastStep' = [Step("sweep", Null, NoDoc) EXCEPT !.evicted = Stale, !.sync = syncSet]
  /\ evictedNotebooks' = [c \in DOMAIN evictedNotebooks \cup Stale |->
                            IF c \in Stale THEN activeConnections[c].notebooks
                            ELSE evictedNotebooks[c]]
  /\ UNCHANGED <<suspended, store, rest, now, lastInbound, backups, sendLog, pairHist>>

\* the transport of an evicted socket finishes closing: 'disconnect' is delivered
DisconnectCallback(c) ==
  /\ sockets[c] = "closing"
  /\ Commit(SocketClose(Cur, c))
  /\ lastStep' = Step("disconnect-callback", c, NoDoc)
  /\ UNCHANGED <<suspended, store, rest, now, lastInbound, evictedNotebooks, backups, sendLog, pairHist>>

\* ------------------------------------------------------------------ REST operations
BaseVersions == {NoBase, 0, 1, 2}

RestStep(r, kind) ==
  /\ lastStep' = [Step(kind, r, rest[r].doc) EXCEPT !.base = rest[r].base]
  /\ UNCHANGED <<sockets, activeConnections, notebookRooms, adapterRooms, suspended, now,
                 lastInbound, evictedNotebooks, backups, sendLog, pairHist>>

\* res.status(status).json(...): the request is answered
Respond(r, status, currentVersion) ==
  [rest EXCEPT ![r].pc = "done", ![r].status = status, ![r].currentVersion = currentVersion]

\* POST /:notebookId/operations arrives: requireNotebookAccess('write') awaits canAccessNotebook
RestSubmit(r, u, d, ops, base) ==
  /\ rest[r].pc = "idle"
  /\ rest' = [rest EXCEPT ![r].pc = "access", ![r].user = u, ![r].doc = d,
                          ![r].ops = ops, ![r].base = base]
  /\ lastStep' = [Step("rest-submit", r, d) EXCEPT !.base = base]
  /\ outbox' = {}
  /\ UNCHANGED <<sockets, activeConnections, notebookRooms, adapterRooms, suspended, store, now,
                 lastInbound, evictedNotebooks, backups, sendLog, pairHist>>

\* requireNotebookAccess resumes; the route handler runs up to `await getNotebook`
RestAccess(r, err) ==
  /\ rest[r].pc = "access"
  /\ rest' = IF ~canAccessNotebook(rest[r].user, rest[r].doc, "write", err)
             THEN Respond(r, 403, 0)
             ELSE IF rest[r].ops.type # "array"
             THEN Respond(r, 400, 0)
             ELSE [rest EXCEPT ![r].pc = "get"]
  /\ outbox' = {}
  /\ RestStep(r, "rest-access")
  /\ UNCHANGED store

\* applyOperations(content, operations): a copy of content; no operation type changes it
applyOperations(content, ops) == content

\* baseVersion && baseVersion !== notebook.version
VersionConflict(base, version) == (base # NoBase /\ base # 0) /\ base # version

\* getNotebook returns; version check; the handler runs up to `await updateNotebook`
RestGetNotebook(r, err) ==
  /\ rest[r].pc = "get"
  /\ rest' = IF err THEN Respond(r, 500, 0)
             ELSE IF rest[r].doc \notin DOMAIN store THEN Respond(r, 404, 0)
             ELSE IF VersionConflict(rest[r].base, store[rest[r].doc].version)
             THEN [Respond(r, 409, store[rest[r].doc].version) EXCEPT
                     ![r].read = store[rest[r].doc].version]
             ELSE [rest EXCEPT ![r].pc = "update",
                               ![r].read = store[rest[r].doc].version,
                               ![r].newVersion = store[rest[r].doc].version + 1]
  /\ outbox' = {}
  /\ RestStep(r, "rest-get")
  /\ UNCHANGED store

\* DynamoDBService.updateNotebook(id, {content, version}): an unconditional SET
updateNotebook(table, d, content, version) ==
  [table EXCEPT ![d] = [version |-> version, content |-> content]]

\* the UpdateItem command reaches the table (or fails)
RestUpdateNotebook(r, err) ==
  /\ rest[r].pc = "update"
  /\ IF err
     THEN /\ rest' = Respond(r, 500, 0)
          /\ UNCHANGED store
     ELSE /\ store' = updateNotebook(store, rest[r].doc,
                                     applyOperations(store[rest[r].doc].content, rest[r].ops),
                                     rest[r].newVersion)
          /\ rest' = [rest EXCEPT ![r].pc = "written"]
  /\ outbox' = {}
  /\ RestStep(r, "rest-update")

\* the handler resumes after updateNotebook: record, broadcast, answer
RestRespond(r) ==
  /\ rest[r].pc = "written"
  /\ outbox' = {[Event("operations", rest[r].doc, r, ToRoom(rest[r].doc), "") EXCEPT
                   !.version = rest[r].newVersion]}
  /\ rest' = [Respond(r, 200, 0) EXCEPT ![r].applied = rest[r].ops.n]
  /\ RestStep(r, "rest-respond")
  /\ UNCHANGED store

\* ------------------------------------------------------------------ other writers
\* the routes that read the notebook and write version + 1: PUT /:id and
\* POST /:id/versions/:version/restore
WriteRoutes == {"put", "restore-version"}
\* req.body.content of PUT /:id (Null: the update has no content); the content of a version
Contents == {Null, "k1"}

\* the request arrives; requireNotebookAccess('write') has answered
WriteSubmit(r, route, u, d, content) ==
  /\ rest[r].pc = "idle"
  /\ route = "restore-version" => content # Null
  /\ rest' = IF ~canAccessNotebook(u, d, "write", FALSE)
             THEN [Respond(r, 403, 0) EXCEPT ![r].route = route, ![r].user = u, ![r].doc = d]
             ELSE [rest EXCEPT ![r].pc = "w-get", ![r].route = route, ![r].user = u,
                               ![r].doc = d, ![r].content = content]
  /\ lastStep' = Step("write-submit", r, d)
  /\ outbox' = {}
  /\ UNCHANGED <<sockets, activeConnections, notebookRooms, adapterRooms, suspended, store, now,
                 lastInbound, evictedNotebooks, backups, sendLog, pairHist>>

\* getNotebook returns: updates.version = currentNotebook.version + 1 when content is written
WriteGetNotebook(r) ==
  /\ rest[r].pc = "w-get"
  /\ rest' = IF rest[r].doc \notin DOMAIN store THEN Respond(r, 404, 0)
             ELSE [rest EXCEPT ![r].pc = "w-update",
                               ![r].read = store[rest[r].doc].version,
                               ![r].newVersion = IF rest[r].content # Null
                                                 THEN store[rest[r].doc].version + 1
                                                 ELSE store[rest[r].doc].version]
  /\ outbox' = {}
  /\ RestStep(r, "write-get")
  /\ UNCHANGED <<store, backups>>

\* DynamoDBService.updateNotebook(notebookId, updates), then the answer
WriteUpdateNotebook(r) ==
  /\ rest[r].pc = "w-update"
  /\ store' = IF rest[r].content # Null
              THEN updateNotebook(store, rest[r].doc, rest[r].content, rest[r].newVersion)
              ELSE store
  /\ rest' = Respond(r, 200, 0)
  /\ outbox' = {}
  /\ RestStep(r, "write-update")
  /\ UNCHANGED backups

\* createBackupSnapshot: the notebook as stored goes to the backup bucket
createBackupSnapshot(objects, table, d) ==
  objects \cup {[doc |-> d, version |-> table[d].version, content |-> table[d].content]}

\* triggerBackupLambda(notebookId, 'create' | 'update') runs the snapshot
BackupSnapshot(d) ==
  /\ backups' = createBackupSnapshot(backups, store, d)
  /\ backups' # backups
  /\ outbox' = {}
  /\ lastStep' = Step("backup", Null, d)
  /\ UNCHANGED <<sockets, activeConnections, notebookRooms, adapterRooms, suspended, store, rest,
                 now, lastInbound, evictedNotebooks, sendLog, pairHist>>

\* restoreFromBackup(notebookId, backupKey): the backup is read;
\* restoredNotebook.version = restoredNotebook.version + 1
RestoreSubmit(r, d, b) ==
  /\ rest[r].pc = "idle"
  /\ b \in backups
  /\ b.doc = d
  /\ rest' = [rest EXCEPT ![r].pc = "b-update", ![r].route = "restore-backup", ![r].doc = d,
                          ![r].content = b.content, ![r].read = b.version,
                          ![r].newVersion = b.version + 1]
  /\ lastStep' = Step("restore-submit", r, d)
  /\ outbox' = {}
  /\ UNCHANGED <<sockets, activeConnections, notebookRooms, adapterRooms, suspended, store, now,
                 lastInbound, evictedNotebooks, backups, sendLog, pairHist>>

\* restoreFromBackup: updateNotebook with the content and the version of the backup + 1
RestoreUpdate(r) ==
  /\ rest[r].pc = "b-update"
  /\ store' = updateNotebook(store, rest[r].doc, rest[r].content, rest[r].newVersion)
  /\ rest' = [rest EXCEPT ![r].pc = "b-snapshot"]
  /\ outbox' = {}
  /\ RestStep(r, "restore-update")
  /\ UNCHANGED backups

\* restoreFromBackup: the restored state is backed up
RestoreSnapshot(r) ==
  /\ rest[r].pc = "b-snapshot"
  /\ backups' = createBackupSnapshot(backups, store, rest[r].doc)
  /\ rest' = Respond(r, 200, 0)
  /\ outbox' = {}
  /\ lastStep' = [Step("restore-snapshot", r, rest[r].doc) EXCEPT !.base = rest[r].base]
  /\ UNCHANGED <<sockets, activeConnections, notebookRooms, adapterRooms, suspended, store, now,
                 lastInbound, evictedNotebooks, sendLog, pairHist>>

\* ------------------------------------------------------------------ specifications
\* rooms and membership: every connection, every document
NextRooms ==
  \/ \E c \in Conns : Connection(c)
  \/ \E c \in Conns, d \in Docs \cup {NoDoc} : JoinNotebook(c, d)
  \/ \E t \in suspended, err \in BOOLEAN : JoinNotebookResume(t, err)
  \/ \E c \in Conns, d \in Docs \cup {NoDoc} : LeaveNotebook(c, d)
  \/ \E c \in Conns : Disconnect(c)

\* the connections and documents of the narrower specifications
OpsConns == {"c1", "c3"}
OpsDocs == {"d1"}

\* join and leave messages on one document
NextJoinLeave ==
  \/ \E c \in Conns : Connection(c)
  \/ \E c \in Conns, d \in OpsDocs \cup {NoDoc} : JoinNotebook(c, d)
  \/ \E t \in suspended, err \in BOOLEAN : JoinNotebookResume(t, err)
  \/ \E c \in Conns, d \in OpsDocs \cup {NoDoc} : LeaveNotebook(c, d)

\* websocket operations on one document, one connection per identity
NextOps ==
  \/ \E c \in OpsConns : Connection(c)
  \/ \E c \in OpsConns, d \in OpsDocs : JoinNotebook(c, d)
  \/ \E t \in suspended, err \in BOOLEAN : JoinNotebookResume(t, err)
  \/ \E c \in OpsConns, d \in OpsDocs \cup {NoDoc, MissingDoc}, ops \in {NoOps, SomeOps},
        base \in BaseVersions : Operation(c, d, ops, base)
  \/ \E t \in suspended, err \in BOOLEAN : OperationResume(t, err)

\* the REST operations endpoint
NextRest ==
  \/ \E r \in RestCalls, u \in Users, d \in Docs, ops \in {NoOps, BadOps, SomeOps},
        base \in BaseVersions : RestSubmit(r, u, d, ops, base)
  \/ \E r \in RestCalls, err \in BOOLEAN : RestAccess(r, err)
  \/ \E r \in RestCalls, err \in BOOLEAN : RestGetNotebook(r, err)
  \/ \E r \in RestCalls, err \in BOOLEAN : RestUpdateNotebook(r, err)
  \/ \E r \in RestCalls : RestRespond(r)

\* the clock and the sweeper, with every type of inbound message
SweepSenders == {"c1"}
NextSweep ==
  \/ \E c \in OpsConns : Connection(c)
  \/ \E c \in OpsConns, d \in OpsDocs : JoinNotebook(c, d)
  \/ \E t \in suspended, err \in BOOLEAN : JoinNotebookResume(t, err)
  \/ \E c \in SweepSenders, d \in OpsDocs : LeaveNotebook(c, d)
  \/ \E c \in SweepSenders, d \in OpsDocs : Operation(c, d, SomeOps, NoBase)
  \/ \E t \in suspended, err \in BOOLEAN : OperationResume(t, err)
  \/ \E c \in SweepSenders, d \in OpsDocs : CursorPosition(c, d, "p1")
  \/ \E c \in SweepSenders, d \in OpsDocs : Typing(c, d, TRUE)
  \/ \E c \in SweepSenders, d \in OpsDocs : Presence(c, d, "online")
  \/ \E c \in SweepSenders, d \in OpsDocs : ChatMessage(c, d, Str(<<"h">>))
  \/ Tick
  \/ \E order \in Orders(Stale), syncSet \in SUBSET Stale : cleanupInactiveConnections(order, syncSet)
  \/ \E c \in Conns : DisconnectCallback(c)

\* handshakes and every type of inbound message on one document
NextEvents ==
  \/ \E c \in OpsConns, token \in Tokens : Handshake(c, token)
  \/ \E c \in OpsConns, d \in OpsDocs \cup {NoDoc} : JoinNotebook(c, d)
  \/ \E t \in suspended, err \in BOOLEAN : JoinNotebookResume(t, err)
  \/ \E c \in OpsConns, d \in OpsDocs \cup {NoDoc} : LeaveNotebook(c, d)
  \/ \E c \in OpsConns, d \in OpsDocs \cup {NoDoc}, ops \in {NoOps, SomeOps} :
       Operation(c, d, ops, NoBase)
  \/ \E t \in suspended, err \in BOOLEAN : OperationResume(t, err)
  \/ \E c \in OpsConns, d \in OpsDocs \cup {NoDoc}, position \in Positions :
       CursorPosition(c, d, position)
  \/ \E c \in OpsConns, d \in OpsDocs \cup {NoDoc}, isTyping \in BOOLEAN : Typing(c, d, isTyping)
  \/ \E c \in OpsConns, d \in OpsDocs \cup {NoDoc}, status \in {Null, "online"} :
       Presence(c, d, status)
  \/ \E c \in OpsConns, d \in OpsDocs \cup {NoDoc}, m \in ChatInputs : ChatMessage(c, d, m)
  \/ \E c \in OpsConns : Disconnect(c)

\* the REST operations endpoint with websocket connections in the room
NextRestRoom ==
  \/ \E c \in OpsConns : Connection(c)
  \/ \E c \in OpsConns, d \in OpsDocs : JoinNotebook(c, d)
  \/ \E t \in suspended : JoinNotebookResume(t, FALSE)
  \/ \E r \in RestCalls, u \in Users, d \in OpsDocs : RestSubmit(r, u, d, SomeOps, NoBase)
  \/ \E r \in RestCalls : RestAccess(r, FALSE)
  \/ \E r \in RestCalls : RestGetNotebook(r, FALSE)
  \/ \E r \in RestCalls : RestUpdateNotebook(r, FALSE)
  \/ \E r \in RestCalls : RestRespond(r)

\* two connections of one identity and a peer on one document, with cursor and typing updates
NextTakeover ==
  \/ \E c \in Conns : Connection(c)
  \/ \E c \in Conns, d \in OpsDocs : JoinNotebook(c, d)
  \/ \E t \in suspended : JoinNotebookResume(t, FALSE)
  \/ \E c \in Conns, d \in OpsDocs : CursorPosition(c, d, "p1")
  \/ \E c \in Conns, d \in OpsDocs : Typing(c, d, TRUE)

\* every writer of the notebooks table, on one document
NextWriters ==
  \/ \E r \in RestCalls, u \in Users, d \in OpsDocs, base \in {NoBase, 1} :
       RestSubmit(r, u, d, SomeOps, base)
  \/ \E r \in RestCalls : RestAccess(r, FALSE)
  \/ \E r \in RestCalls : RestGetNotebook(r, FALSE)
  \/ \E r \in RestCalls : RestUpdateNotebook(r, FALSE)
  \/ \E r \in RestCalls : RestRespond(r)
  \/ \E r \in RestCalls, route \in WriteRoutes, u \in Users, d \in OpsDocs, content \in Contents :
       WriteSubmit(r, route, u, d, content)
  \/ \E r \in RestCalls : WriteGetNotebook(r)
  \/ \E r \in RestCalls : WriteUpdateNotebook(r)
  \/ \E d \in OpsDocs : BackupSnapshot(d)
  \/ \E r \in RestCalls, d \in OpsDocs, b \in backups : RestoreSubmit(r, d, b)
  \/ \E r \in RestCalls : RestoreUpdate(r)
  \/ \E r \in RestCalls : RestoreSnapshot(r)

\* the messages of each connection in the order sent: joins, leaves and operations on one
\* document, one connection per identity
NextOrdered ==
  \/ \E c \in OpsConns : Connection(c)
  \/ \E c \in OpsConns, d \in OpsDocs : JoinNotebook(c, d)
  \/ \E t \in suspended, err \in BOOLEAN : JoinNotebookResume(t, err)
  \/ \E c \in OpsConns, d \in OpsDocs : LeaveNotebook(c, d)
  \/ \E c \in OpsConns, d \in OpsDocs : Operation(c, d, SomeOps, NoBase)
  \/ \E t \in suspended, err \in BOOLEAN : OperationResume(t, err)

Next ==
  \/ \E c \in Conns, token \in Tokens : Handshake(c, token)
  \/ NextRooms
  \/ NextRest
  \/ NextWriters
  \/ \E c \in Conns, d \in Docs \cup {NoDoc}, ops \in {NoOps, SomeOps}, base \in BaseVersions :
       Operation(c, d, ops, base)
  \/ \E t \in suspended, err \in BOOLEAN : OperationResume(t, err)
  \/ \E c \in Conns, d \in Docs \cup {NoDoc}, position \in Positions : CursorPosition(c, d, position)
  \/ \E c \in Conns, d \in Docs \cup {NoDoc}, isTyping \in BOOLEAN : Typing(c, d, isTyping)
  \/ \E c \in Conns, d \in Docs \cup {NoDoc}, status \in {Null, "online"} : Presence(c, d, status)
  \/ \E c \in Conns, d \in Docs \cup {NoDoc}, m \in ChatInputs : ChatMessage(c, d, m)
  \/ Tick
  \/ \E order \in Orders(Stale), syncSet \in SUBSET Stale : cleanupInactiveConnections(order, syncSet)
  \/ \E c \in Conns : DisconnectCallback(c)

Spec == Init /\ [][Next]_vars
SpecRooms == Init /\ [][NextRooms]_vars
SpecJoinLeave == InitTracked /\ [][NextJoinLeave]_vars
SpecOps == Init /\ [][NextOps]_vars
SpecRest == Init /\ [][NextRest]_vars
SpecSweep == Init /\ [][NextSweep]_vars
SpecEvents == Init /\ [][NextEvents]_vars
SpecWriters == Init /\ [][NextWriters]_vars
SpecTakeover == Init /\ [][NextTakeover]_vars
SpecRestRoom == Init /\ [][NextRestRoom]_vars
SpecOrdered == InitOrdered /\ [][NextOrdered]_vars

\* ------------------------------------------------------------------ claims
\* the number of entries identity u has in the room of document d
Entries(u, d) ==
  IF d \in DOMAIN notebookRooms
  THEN Cardinality({x \in DOMAIN notebookRooms[d] : x = u})
  ELSE 0

Accepted(r) == rest[r].pc = "done" /\ rest[r].status = 200
DeclaredBase(r) == rest[r].base # NoBase

\* C1: two REST submissions for the same document with the same declared baseVersion
\* never both pass the version check before either has written, and never are both
\* accepted: one is accepted, the other is answered VERSION_CONFLICT.
C1_OneWinner ==
  \A r, s \in RestCalls :
    (r # s /\ rest[r].doc = rest[s].doc /\ rest[r].base = rest[s].base
       /\ rest[r].base \notin {NoBase, 0})
    => /\ ~(rest[r].pc = "update" /\ rest[s].pc = "update")
       /\ ~(Accepted(r) /\ Accepted(s))

\* C2: a websocket operation that passed the access check and whose baseVersion differs
\* from the stored version is answered with an error carrying the current version and
\* is not broadcast.
C2_WsConflictRejected ==
  (lastStep.kind = "operation-resume" /\ lastStep.ok /\ lastStep.base # NoBase
     /\ lastStep.base # store[lastStep.doc].version)
  => /\ \E e \in outbox : e.ev = "error" /\ e.version = store[lastStep.doc].version
     /\ ~\E e \in outbox : e.ev = "operation"

\* C3: a REST submission whose declared integer baseVersion (0 included) differs from
\* the version read from the store is answered 409 VERSION_CONFLICT with currentVersion
\* = the stored version; it never reaches updateNotebook and is never broadcast.
C3_MismatchRejected ==
  \A r \in RestCalls :
    (rest[r].read # 0 /\ DeclaredBase(r) /\ rest[r].base # rest[r].read)
    => /\ rest[r].pc = "done"
       /\ rest[r].status = 409
       /\ rest[r].currentVersion = rest[r].read

\* C4: once no submission is between its write and its answer, the stored version of a
\* document is the initial version (1) plus the number of submissions answered as accepted.
C4_VersionCountsAccepted ==
  \A d \in Docs :
    (\A r \in RestCalls : ~(rest[r].doc = d /\ rest[r].pc = "written"))
    => store[d].version = 1 + Cardinality({r \in RestCalls : rest[r].doc = d /\ Accepted(r)})

C6_NetJoins ==
  \A u \in Users, d \in Docs : Entries(u, d) = pairHist.of[u][d].net

\* C6 amended: an identity has one entry in the room if the last accepted join or leave
\* handled for the pair was a join, and none otherwise; a repeated join adds no entry.
C6_LastJoinWins ==
  \A u \in Users, d \in Docs :
    Entries(u, d) = IF pairHist.of[u][d].last = "join" THEN 1 ELSE 0

\* C6 witness: two unmatched joins of one pair, one entry
C6_Witness ==
  \E u \in Users, d \in Docs : pairHist.of[u][d].net >= 2 /\ Entries(u, d) = 1

\* C7: the disconnect of a registered connection with N joined documents emits exactly N
\* 'user-left' events with reason 'disconnect', one per joined document and addressed to
\* the sockets left in that room, removes the identity from each of these rooms and
\* removes the connection from the registry.
C7_DisconnectCleansUp ==
  (lastStep.kind = "disconnect" /\ lastStep.registered)
  => LET c == lastStep.sock
         left == {e \in outbox : e.ev = "user-left" /\ e.msg = "disconnect"}
     IN /\ outbox = left
        /\ Cardinality(left) = Cardinality(lastStep.notebooks)
        /\ \A d \in lastStep.notebooks :
             /\ \E e \in left : e.doc = d /\ e.sock = c /\ e.to = adapterRooms[d] \cap Connected
             /\ Entries(UserOf(c), d) = 0
        /\ c \notin DOMAIN activeConnections

\* C7 witness: a connection with two joined documents disconnected and a peer was told
C7_Witness ==
  /\ lastStep.kind = "disconnect"
  /\ Cardinality(lastStep.notebooks) = 2
  /\ \E e \in outbox : e.ev = "user-left" /\ e.to # {}

\* C8: when the sweeper has evicted a connection and its 'disconnect' callback has run
\* (inside disconnect(true) or later), the identity is in no room the connection had
\* joined, 'user-left' was emitted for each, and the record is gone.
C8_EvictionCleansUp ==
  \A c \in DOMAIN evictedNotebooks :
    ((lastStep.kind = "sweep" /\ c \in lastStep.sync)
       \/ (lastStep.kind = "disconnect-callback" /\ lastStep.sock = c))
    => /\ \A d \in evictedNotebooks[c] :
            /\ Entries(UserOf(c), d) = 0
            /\ \E e \in outbox : e.ev = "user-left" /\ e.doc = d /\ e.sock = c
       /\ c \notin DOMAIN activeConnections

\* the steps that end the handling of an inbound message
HandledKinds == {"leave-notebook", "cursor-position", "typing", "presence", "chat-message",
                 "join-resume", "operation-resume"}

\* C9: when the handling of an inbound message of a registered connection ends, the
\* connection's lastActivity is the current time, whatever the message and its outcome.
C9_EveryMessageTouches ==
  (/\ \/ lastStep.kind \in HandledKinds
      \/ (lastStep.kind \in {"join-notebook", "operation"} /\ lastStep.doc = NoDoc)
   /\ lastStep.registered
   /\ lastStep.sock \in DOMAIN activeConnections)
  => activeConnections[lastStep.sock].lastActivity = now

\* C10: a sweep evicts a registered connection, all of whose messages have been handled,
\* if and only if more than the inactivity threshold has passed since the connection
\* last sent a message (or connected).
C10_EvictIffSilent ==
  lastStep.kind = "sweep"
  => \A c \in lastStep.evicted \cup DOMAIN activeConnections :
       (~\E t \in suspended : t.sock = c)
       => ((c \in lastStep.evicted) <=> (now - lastInbound[c] > InactivityThreshold))

\* the events that are broadcast with socket.to(room)
PeerEvents == {"operation", "cursor-position", "typing", "presence"}

\* C11: an 'operation', 'cursor-position', 'typing' or 'presence' event is never delivered
\* to the connection that sent the message, and it is delivered to every other registered
\* connection that has the document in its joined set.
C11_SenderExcluded ==
  \A e \in outbox :
    e.ev \in PeerEvents
    => /\ e.sock \notin e.to
       /\ \A c \in DOMAIN activeConnections \ {e.sock} :
            e.doc \in activeConnections[c].notebooks => c \in e.to

\* C11 witness: a member of the room sent such a message and a peer received the event
C11_Witness ==
  \E e \in outbox :
    /\ e.ev \in PeerEvents
    /\ e.sock \in adapterRooms[e.doc]
    /\ e.to # {}

\* a chat-message payload that passes the validation: a string, not empty after trimming
ValidChat(d, m) == d # NoDoc /\ m.type = "string" /\ Trim(m.chars) # <<>>

\* C12: every valid chat-message is delivered to the connection that sent it and to the
\* other connections of the room, whatever the sender's own membership of the room.
C12_ChatEcho ==
  (lastStep.kind = "chat-message" /\ ValidChat(lastStep.doc, lastStep.message))
  => \E e \in outbox :
       /\ e.ev = "chat-message"
       /\ lastStep.sock \in e.to
       /\ \A c \in DOMAIN activeConnections :
            lastStep.doc \in activeConnections[c].notebooks => c \in e.to

\* the identities listed in the activeUsers of a 'notebook-joined' event
Listed(e) == {a.id : a \in e.activeUsers}

\* the step that completed an accepted join
JoinAccepted == lastStep.kind = "join-resume" /\ lastStep.ok

\* C13 as stated: the activeUsers sent to the joiner are the members other than the
\* joiner, while roomSize counts the joiner.
C13_SnapshotExcludesJoiner ==
  JoinAccepted
  => \E e \in outbox :
       /\ e.ev = "notebook-joined"
       /\ Listed(e) = DOMAIN notebookRooms[lastStep.doc] \ {UserOf(lastStep.sock)}
       /\ e.roomSize = Cardinality(DOMAIN notebookRooms[lastStep.doc])

\* C13 amended: the joiner alone receives 'notebook-joined' whose activeUsers list every
\* member of the room, the joiner included, and whose roomSize is the length of that list;
\* the other connections of the room receive 'user-joined' for the joiner.
C13_SnapshotIncludesJoiner ==
  JoinAccepted
  => LET c == lastStep.sock
         d == lastStep.doc
     IN /\ \E e \in outbox :
             /\ e.ev = "notebook-joined"
             /\ e.to = {c} \cap Connected
             /\ Listed(e) = DOMAIN notebookRooms[d]
             /\ UserOf(c) \in Listed(e)
             /\ e.roomSize = Cardinality(Listed(e))
             /\ e.roomSize = Cardinality(e.activeUsers)
        /\ \E e \in outbox :
             /\ e.ev = "user-joined"
             /\ e.sock = c
             /\ c \notin e.to
             /\ \A p \in DOMAIN activeConnections \ {c} :
                  d \in activeConnections[p].notebooks => p \in e.to

\* C13 witness: a second identity joined; the first was told and the joiner got roomSize 2
C13_Witness ==
  /\ JoinAccepted
  /\ \E e \in outbox : e.ev = "notebook-joined" /\ e.roomSize = 2 /\ e.to # {}
  /\ \E e \in outbox : e.ev = "user-joined" /\ e.to # {}

\* the step rejected a join (no notebookId, or read access denied) or a leave (no notebookId)
Rejected(step) ==
  \/ step.kind \in {"join-notebook", "leave-notebook"} /\ step.doc = NoDoc
  \/ step.kind = "join-resume" /\ ~step.ok

\* C14: a rejected join or leave leaves the room table, the registry with the joined sets
\* and the transport rooms as they were; it emits exactly one event, an error addressed
\* to the sender alone.
C14_RejectedChangesNothing ==
  [][Rejected(lastStep')
     => /\ notebookRooms' = notebookRooms
        /\ activeConnections' = activeConnections
        /\ adapterRooms' = adapterRooms
        /\ \E e \in outbox' :
             /\ outbox' = {e}
             /\ e.ev = "error"
             /\ e.to = {lastStep'.sock} \cap ConnectedIn(sockets')]_vars

\* C14 witness: a join was denied by the access check while the room had a member and
\* another socket was connected; the sender received the error
C14_Witness ==
  /\ lastStep.kind = "join-resume"
  /\ ~lastStep.ok
  /\ ~lastStep.err
  /\ lastStep.doc \in DOMAIN notebookRooms
  /\ \E e \in outbox : e.ev = "error" /\ e.to = {lastStep.sock}
  /\ Connected \ {lastStep.sock} # {}

\* the websocket operation handled by the last step failed: no notebookId, write access
\* denied, or a declared baseVersion that is not the stored version
OperationFailed ==
  \/ lastStep.kind = "operation" /\ lastStep.doc = NoDoc
  \/ /\ lastStep.kind = "operation-resume"
     /\ \/ ~lastStep.ok
        \/ lastStep.base # NoBase /\ lastStep.base # store[lastStep.doc].version

\* C15: a failed operation submission emits no 'operation' event and the sender receives
\* an error.
C15_FailedOperationSilent ==
  OperationFailed
  => /\ ~\E e \in outbox : e.ev = "operation"
     /\ \E e \in outbox : e.ev = "error" /\ e.to = {lastStep.sock} \cap Connected

\* C16: whenever an operation broadcast is emitted, the stored version of its document has
\* been advanced beyond the initial version and the event carries the stored version.
C16_BroadcastAfterPersist ==
  \A e \in outbox :
    e.ev \in {"operation", "operations"}
    => /\ store[e.doc].version > 1
       /\ e.version = store[e.doc].version

\* the last step ended the handling of a join, leave, operation or chat message
StructuralEnded ==
  \/ lastStep.kind \in {"join-resume", "leave-notebook", "operation-resume", "chat-message"}
  \/ lastStep.kind \in {"join-notebook", "operation"} /\ lastStep.doc = NoDoc

\* the events that answer the sender of a structural message
Replies == {"notebook-joined", "notebook-left", "operation-applied", "chat-message", "error"}

\* C17: when the handling of a join, leave, operation or chat message has ended and the
\* sender is still connected, the sender has received a success reply or an error.
C17_AlwaysReplied ==
  (StructuralEnded /\ lastStep.sock \in Connected)
  => \E e \in outbox : e.ev \in Replies /\ lastStep.sock \in e.to

\* C18: a handshake registers the connection and attaches its handlers exactly when its
\* credential verifies; a connection refused for a missing or invalid credential is never
\* in the registry, never in a transport room, and no message handler ever ran for it.
C18_OnlyVerifiedConnections ==
  /\ lastStep.kind = "handshake"
       => LET c == lastStep.sock
          IN /\ (c \in DOMAIN activeConnections) <=> (lastStep.token = "valid")
             /\ (sockets[c] = "connected") <=> (lastStep.token = "valid")
             /\ (sockets[c] = "refused") <=> (lastStep.token # "valid")
  /\ \A c \in Conns :
       sockets[c] = "refused"
       => /\ c \notin DOMAIN activeConnections
          /\ lastInbound[c] = NoTime
          /\ \A d \in Docs : c \notin adapterRooms[d]
          /\ ~\E t \in suspended : t.sock = c
          /\ lastStep.sock = c => lastStep.kind = "handshake"

\* C18 witness: a handshake with an expired or forged credential was refused while another
\* connection is registered
C18_Witness ==
  /\ lastStep.kind = "handshake"
  /\ lastStep.token \in {"expired", "forged"}
  /\ sockets[lastStep.sock] = "refused"
  /\ DOMAIN activeConnections # {}

\* the string consists of white space only (the empty string included)
AllSpaces(s) == \A i \in 1..Len(s) : s[i] = " "

\* C19: a chat-message whose message is not a string, or is empty after trimming, emits
\* exactly one event, an error to the sender alone, and no chat-message event; a message
\* of white space only is answered with 'Invalid message content'.
C19_InvalidChatRejected ==
  LET m == lastStep.message
  IN (lastStep.kind = "chat-message" /\ (m.type # "string" \/ AllSpaces(m.chars)))
     => /\ \E e \in outbox :
             /\ outbox = {e}
             /\ e.ev = "error"
             /\ e.to = {lastStep.sock}
             /\ (lastStep.doc # NoDoc /\ m.type = "string" /\ m.chars # <<>>)
                  => e.msg = "Invalid message content"
        /\ ~\E e \in outbox : e.ev = "chat-message"

\* C19 witness: a message of white space only was rejected while the room had subscribers
C19_Witness ==
  /\ lastStep.kind = "chat-message"
  /\ lastStep.doc # NoDoc
  /\ lastStep.message = Str(<<" ", " ">>)
  /\ adapterRooms[lastStep.doc] \cap Connected # {}
  /\ \E e \in outbox : e.ev = "error" /\ e.msg = "Invalid message content"

\* identity u has write access to document d: an admin, or the owner or a collaborator of
\* a notebook that exists and could be looked up
MayWrite(u, d, err) ==
  \/ RoleOf(u) = "admin"
  \/ ~err /\ d \in DOMAIN store /\ (OwnerOf(d) = u \/ u \in CollaboratorsOf(d))

\* C20: a websocket operation of an identity without write access (not owner, not
\* collaborator, notebook missing, or the lookup failed) emits only the error 'Write access
\* denied' to its sender and changes neither the rooms, the registry nor the store.
C20_WriteDeniedNoEffect ==
  [][(lastStep'.kind = "operation-resume"
        /\ ~MayWrite(UserOf(lastStep'.sock), lastStep'.doc, lastStep'.err))
     => /\ \E e \in outbox' :
             /\ outbox' = {e}
             /\ e.ev = "error"
             /\ e.msg = "Write access denied"
             /\ e.to = {lastStep'.sock} \cap ConnectedIn(sockets')
        /\ notebookRooms' = notebookRooms
        /\ activeConnections' = activeConnections
        /\ adapterRooms' = adapterRooms
        /\ store' = store]_vars

\* C20 witness: a teacher with read-only access has joined the room, the owner is in the
\* room too, and the teacher's operation was denied
C20_Witness ==
  /\ lastStep.kind = "operation-resume"
  /\ ~lastStep.ok
  /\ ~lastStep.err
  /\ RoleOf(UserOf(lastStep.sock)) = "teacher"
  /\ lastStep.doc \in lastStep.notebooks
  /\ adapterRooms[lastStep.doc] \ {lastStep.sock} # {}
  /\ \E e \in outbox : e.ev = "error" /\ e.to = {lastStep.sock}

\* the registered connections of identity u subscribed to the transport room of document d
Subscribed(u, d) ==
  {c \in DOMAIN activeConnections : UserOf(c) = u /\ c \in adapterRooms[d]}

\* C21: identity u has an entry in the room of document d if and only if some registered
\* connection of u is subscribed to the transport room of d.
C21_RoomsMatchSubscriptions ==
  \A u \in Users, d \in Docs : (Entries(u, d) = 1) <=> (Subscribed(u, d) # {})

\* the last step wrote a version to the notebooks table
VersionWritten(step, requests) ==
  \/ step.kind = "rest-update" /\ requests[step.sock].pc = "written"
  \/ step.kind = "write-update" /\ requests[step.sock].content # Null
  \/ step.kind = "restore-update"

\* C22: every write of a version by any writer (collaboration operations, notebook PUT,
\* version restore, restore from backup) stores a version greater than the version stored
\* before it.
C22_VersionIncreases ==
  [][VersionWritten(lastStep', rest')
     => store'[lastStep'.doc].version > store[lastStep'.doc].version]_vars

\* C23: the broadcast of an operation accepted by the REST endpoint has the event name
\* 'operation' of the websocket path and is not delivered to a websocket connection of
\* the identity that submitted it, while the other subscribers of the room receive it.
C23_RestFanOutAsWebsocket ==
  lastStep.kind = "rest-respond"
  => \A e \in outbox :
       /\ e.ev = "operation"
       /\ \A c \in e.to : UserOf(c) # rest[lastStep.sock].user
       /\ \A c \in ToRoom(e.doc) : UserOf(c) # rest[lastStep.sock].user => c \in e.to

\* the operation list holds an insert or a delete
Edits(ops) == ops = SomeOps

\* C24: the update of an accepted operation list that holds an insert or a delete stores,
\* in the same write as the new version, a content that differs from the content stored
\* before.
C24_OperationsApplied ==
  [][(/\ lastStep'.kind = "rest-update"
      /\ rest'[lastStep'.sock].pc = "written"
      /\ Edits(rest'[lastStep'.sock].ops))
     => /\ store'[lastStep'.doc].content # store[lastStep'.doc].content
        /\ store'[lastStep'.doc].version = rest'[lastStep'.sock].newVersion]_vars

\* the entry of identity u in room d of a room table, Null when there is none
EntryOf(rooms, d, u) ==
  IF d \in DOMAIN rooms /\ u \in DOMAIN rooms[d] THEN rooms[d][u].socketId ELSE Null

\* C25: a leave with a notebookId removes the document from the connection's joined set
\* and the connection from the transport room, removes the identity's entry from the room
\* and nothing else (an emptied room is deleted), emits 'user-left' to the connections
\* left in the transport room and 'notebook-left' to the leaver alone.
C25_LeaveEffects ==
  [][(lastStep'.kind = "leave-notebook" /\ lastStep'.doc # NoDoc)
     => LET c == lastStep'.sock
            d == lastStep'.doc
            u == UserOf(c)
        IN /\ c \in DOMAIN activeConnections
                => activeConnections' = [activeConnections EXCEPT ![c].notebooks = @ \ {d}]
           /\ adapterRooms' = [adapterRooms EXCEPT ![d] = @ \ {c}]
           /\ EntryOf(notebookRooms', d, u) = Null
           /\ \A x \in Users, y \in Docs :
                <<x, y>> # <<u, d>>
                => EntryOf(notebookRooms', y, x) = EntryOf(notebookRooms, y, x)
           /\ \A y \in DOMAIN notebookRooms' : DOMAIN notebookRooms'[y] # {}
           /\ \E e, f \in outbox' :
                /\ outbox' = {e, f}
                /\ e.ev = "user-left" /\ e.doc = d /\ e.sock = c
                /\ e.to = (adapterRooms[d] \ {c}) \cap Connected
                /\ f.ev = "notebook-left" /\ f.doc = d /\ f.to = {c}]_vars

\* C25 witness: a member left a room it had joined, another member stays and was told
C25_Witness ==
  /\ lastStep.kind = "leave-notebook"
  /\ lastStep.doc \in lastStep.notebooks
  /\ lastStep.doc \in DOMAIN notebookRooms
  /\ \E e \in outbox : e.ev = "user-left" /\ e.to # {}

\* the identities with an entry in room d of a room table
Members(rooms, d) == IF d \in DOMAIN rooms THEN DOMAIN rooms[d] ELSE {}

\* connection c is joined to d and holds its identity's entry: the state a join by c leaves
JoinedBy(c, d) ==
  /\ c \in DOMAIN activeConnections
  /\ d \in activeConnections[c].notebooks
  /\ EntryOf(notebookRooms, d, UserOf(c)) = c

\* C26: an accepted join by a connection that is already joined to the document leaves
\* the room's member set, the room size, the connection's joined set and the transport
\* room as they were, and the peers are sent 'user-joined' again.
C26_RejoinIdempotent ==
  [][(/\ lastStep'.kind = "join-resume"
      /\ lastStep'.ok
      /\ JoinedBy(lastStep'.sock, lastStep'.doc))
     => LET c == lastStep'.sock
            d == lastStep'.doc
        IN /\ Members(notebookRooms', d) = Members(notebookRooms, d)
           /\ EntryOf(notebookRooms', d, UserOf(c)) = c
           /\ \A y \in Docs \ {d} : Members(notebookRooms', y) = Members(notebookRooms, y)
           /\ activeConnections'[c].notebooks = activeConnections[c].notebooks
           /\ adapterRooms' = adapterRooms
           /\ \E e \in outbox' :
                /\ e.ev = "user-joined" /\ e.doc = d /\ e.sock = c
                /\ e.to = (adapterRooms[d] \ {c}) \cap Connected
           /\ \E e \in outbox' :
                /\ e.ev = "notebook-joined"
                /\ e.roomSize = Cardinality(Members(notebookRooms, d))]_vars

\* C26 witness: a connection joined a document it had already joined, with a peer in the room
C26_Witness ==
  /\ lastStep.kind = "join-resume"
  /\ lastStep.ok
  /\ lastStep.doc \in lastStep.notebooks
  /\ Cardinality(Members(notebookRooms, lastStep.doc)) = 2
  /\ \E e \in outbox : e.ev = "user-joined" /\ e.to # {}

\* C27: when an identity that has an entry in the room under another connection joins the
\* document from connection c, the room keeps its members, the identity's single entry
\* now records c, with cursor null and typing false, and the room size does not grow.
C27_LastJoinTakesEntry ==
  [][(/\ lastStep'.kind = "join-resume"
      /\ lastStep'.ok
      /\ EntryOf(notebookRooms, lastStep'.doc, UserOf(lastStep'.sock))
           \notin {Null, lastStep'.sock})
     => LET c == lastStep'.sock
            d == lastStep'.doc
            u == UserOf(c)
        IN /\ Members(notebookRooms', d) = Members(notebookRooms, d)
           /\ notebookRooms'[d][u].socketId = c
           /\ notebookRooms'[d][u].cursorPosition = Null
           /\ notebookRooms'[d][u].isTyping = FALSE
           /\ \A x \in Members(notebookRooms, d) \ {u} :
                notebookRooms'[d][x] = notebookRooms[d][x]
           /\ \E e \in outbox' :
                /\ e.ev = "notebook-joined"
                /\ e.roomSize = Cardinality(Members(notebookRooms, d))]_vars

\* C27 witness: the entry of an identity that had a cursor and was typing under one
\* connection was taken over by a join from another connection, with a peer in the room
C27_Witness ==
  /\ lastStep.kind = "join-resume"
  /\ lastStep.ok
  /\ lastStep.doc \notin lastStep.notebooks
  /\ \E p \in DOMAIN activeConnections \ {lastStep.sock} :
       /\ UserOf(p) = UserOf(lastStep.sock)
       /\ lastStep.doc \in activeConnections[p].notebooks
  /\ EntryOf(notebookRooms, lastStep.doc, UserOf(lastStep.sock)) = lastStep.sock
  /\ Cardinality(Members(notebookRooms, lastStep.doc)) = 2

\* the presence-class messages
PresenceKinds == {"cursor-position", "typing", "presence"}

\* C28: a cursor-position, typing or presence message changes neither the store, the
\* registry, the transport rooms nor the members of any room, and emits no error; of the
\* room entries it changes at most the cursor position (cursor-position) or the typing
\* flag (typing) of the entry of the sender's identity in the named room.
C28_PresenceFrame ==
  [][lastStep'.kind \in PresenceKinds
     => LET k == lastStep'.kind
            d == lastStep'.doc
            u == UserOf(lastStep'.sock)
        IN /\ store' = store
           /\ activeConnections' = activeConnections
           /\ adapterRooms' = adapterRooms
           /\ DOMAIN notebookRooms' = DOMAIN notebookRooms
           /\ \A y \in DOMAIN notebookRooms :
                /\ DOMAIN notebookRooms'[y] = DOMAIN notebookRooms[y]
                /\ \A x \in DOMAIN notebookRooms[y] :
                     LET old == notebookRooms[y][x]
                         new == notebookRooms'[y][x]
                     IN IF <<x, y>> = <<u, d>> /\ k = "cursor-position"
                        THEN new = [old EXCEPT !.cursorPosition = new.cursorPosition]
                        ELSE IF <<x, y>> = <<u, d>> /\ k = "typing"
                        THEN new = [old EXCEPT !.isTyping = new.isTyping]
                        ELSE new = old
           /\ ~\E e \in outbox' : e.ev = "error"]_vars

\* C28 witness: a cursor-position message changed the cursor of the sender's entry while
\* another identity is in the room
C28_Witness ==
  /\ lastStep.kind = "cursor-position"
  /\ lastStep.doc \in DOMAIN notebookRooms
  /\ Cardinality(DOMAIN notebookRooms[lastStep.doc]) = 2
  /\ notebookRooms[lastStep.doc][UserOf(lastStep.sock)].cursorPosition = "p1"
  /\ \E x \in DOMAIN notebookRooms[lastStep.doc] :
       notebookRooms[lastStep.doc][x].cursorPosition = Null

\* C29: the connection id recorded in every room entry is a key of the connection
\* registry; a join that resumes after its connection has gone leaves no entry behind.
C29_EntriesAreRegistered ==
  \A d \in DOMAIN notebookRooms :
    \A u \in DOMAIN notebookRooms[d] :
      notebookRooms[d][u].socketId \in DOMAIN activeConnections

\* C30: the identity of every registered connection has an entry in the room of every
\* document in the connection's joined set; the leave or disconnect of another
\* connection of the identity does not remove it.
C30_JoinedImpliesEntry ==
  \A c \in DOMAIN activeConnections :
    \A d \in activeConnections[c].notebooks : Entries(UserOf(c), d) = 1

\* the last two messages connection c sent are join-notebook and then leave-notebook for d
JoinThenLeave(c, d) ==
  LET log == sendLog.of[c]
      n == Len(log)
  IN /\ n >= 2
     /\ log[n - 1] = [kind |-> "join-notebook", doc |-> d]
     /\ log[n] = [kind |-> "leave-notebook", doc |-> d]

\* no handler of connection c is suspended on an await
HandlersFinished(c) == ~\E t \in suspended : t.sock = c

\* C31: when the last two messages of a connection are join-notebook(d) and then
\* leave-notebook(d) and both handlers have finished, its identity has no entry in room
\* d, d is not in its joined set and the connection is not in d's transport room.
C31_LeaveAfterJoinWins ==
  \A c \in OpsConns, d \in OpsDocs :
    (JoinThenLeave(c, d) /\ HandlersFinished(c))
    => /\ Entries(UserOf(c), d) = 0
       /\ c \in DOMAIN activeConnections => d \notin activeConnections[c].notebooks
       /\ c \notin adapterRooms[d]

\* the events of the handlers that publish a presence or chat update to a room
PublishKinds == {"cursor-position", "typing", "presence", "chat-message"}

\* connection c is registered and has document d in its joined set
HasJoined(c, d) == c \in DOMAIN activeConnections /\ d \in activeConnections[c].notebooks

\* C32: a cursor-position, typing, presence or chat-message event for document d reaches
\* a subscriber of d only when the sending connection has d in its joined set.
C32_OnlyMembersPublish ==
  \A e \in outbox :
    (e.ev \in PublishKinds /\ e.to # {}) => HasJoined(e.sock, e.doc)

\* C33: a 'user-left' event that reaches a peer names an identity that had an entry in the
\* room of the document just before the leave or disconnect, and a leave-notebook for a
\* document the connection has not joined delivers no 'user-left' and removes no member.
C33_UserLeftOnlyForMembers ==
  [][/\ lastStep'.kind \in {"leave-notebook", "disconnect"}
        => \A e \in outbox' :
             (e.ev = "user-left" /\ e.to # {}) => Entries(UserOf(e.sock), e.doc) = 1
     /\ (/\ lastStep'.kind = "leave-notebook"
         /\ lastStep'.doc # NoDoc
         /\ lastStep'.doc \notin lastStep'.notebooks)
        => /\ ~\E e \in outbox' : e.ev = "user-left" /\ e.to # {}
           /\ notebookRooms' = notebookRooms]_vars

\* the document of the message connection c sent as its seq-th
DocOfSent(c, seq) == sendLog.of[c][seq].doc

\* C34: the operations one connection sent for one document reach a peer in the order the
\* connection sent them.
C34_OperationsInSendOrder ==
  \A c \in Conns :
    LET cast == sendLog.cast[c]
    IN \A i, j \in 1..Len(cast) :
         (/\ i < j
          /\ DocOfSent(c, cast[i].seq) = DocOfSent(c, cast[j].seq)
          /\ cast[i].to \cap cast[j].to # {})
         => cast[i].seq < cast[j].seq

====
